---- MODULE Spec2Model ----
(***************************************************************************)
(* State-machine model of detect_secrets/core/scan.py: the three scan      *)
(* generators (scan_line, scan_file, scan_diff), the line pipeline, the     *)
(* secret-level filtering of _scan_line, transformer selection, and the     *)
(* memoized plugin / filter registries.                                     *)
(*                                                                          *)
(* A line of text is a sequence of one-character tokens.  The generators    *)
(* advance only while the consumer is pulling; a yield suspends them until  *)
(* the consumer pulls again or closes the generator.                        *)
(***************************************************************************)
EXTENDS Naturals, Integers, Sequences, FiniteSets, TLC

\* Number of scan calls the caller makes in one behaviour.
MaxScans == 2

-----------------------------------------------------------------------------
(* Text *)

Whitespace == {" ", "\n"}

\* str.rstrip(): drop trailing whitespace.
RECURSIVE rstrip(_)
rstrip(line) ==
    IF line = <<>> THEN <<>>
    ELSE IF line[Len(line)] \in Whitespace
         THEN rstrip(SubSeq(line, 1, Len(line) - 1))
         ELSE line

Contains(line, tok) == \E i \in 1..Len(line) : line[i] = tok

RECURSIVE SelectTokens(_, _)
SelectTokens(line, toks) ==
    IF line = <<>> THEN <<>>
    ELSE IF Head(line) \in toks
         THEN <<Head(line)>> \o SelectTokens(Tail(line), toks)
         ELSE SelectTokens(Tail(line), toks)

\* list(enumerate(lines, 1))
enumerate1(ls) == [i \in 1..Len(ls) |-> [line_number |-> i, text |-> ls[i]]]

-----------------------------------------------------------------------------
(* Detectors (plugins) *)

ADHOC_FILENAME == "adhoc-string-scan"

PluginClassnames == {"AWSKeyDetector", "KeywordDetector", "BasicAuthDetector", "FaultyDetector"}

PotentialSecret(type, filename, secret, line_number) ==
    [type |-> type, filename |-> filename, secret_value |-> secret,
     line_number |-> line_number]

\* Tokens each detector reports as a secret.
SecretTokens(plugin) ==
    CASE plugin = "AWSKeyDetector"  -> {"K1", "K2"}
      [] plugin = "KeywordDetector" -> {"P"}
      [] OTHER                      -> {}

\* plugin.analyze_line(filename, line, line_number): the outcome is
\* "ok" with the raw findings, "AttributeError" when the detector has no
\* line-based analysis, or "error" for any other exception.
analyze_line(plugin, filename, line, line_number) ==
    CASE plugin = "BasicAuthDetector" ->
            [kind |-> "AttributeError", secrets |-> <<>>]
      [] plugin = "FaultyDetector" /\ Contains(line, "!") ->
            [kind |-> "error", secrets |-> <<>>]
      [] OTHER ->
            LET toks == SelectTokens(line, SecretTokens(plugin))
            IN [kind |-> "ok",
                secrets |-> [i \in 1..Len(toks) |->
                               PotentialSecret(plugin, filename, toks[i], line_number)]]

-----------------------------------------------------------------------------
(* File system *)

Paths == {"a.py", "b.ini", "c.yaml", "d.yaml", "e.py", "pipe.yaml", "locked.py",
          "missing.py"}

\* os.path.isfile: pipe.yaml is a named pipe, which open() accepts.
IsFile(path) == path \in Paths \ {"missing.py", "pipe.yaml"}

\* open(path) succeeds
Openable(path) == path \in Paths \ {"missing.py", "locked.py"}

\* Raw content, one entry per line, newline included.
Content(path) ==
    CASE path = "a.py"   -> << <<"K1", "K2", "\n">>, <<"P", "#", "\n">>, <<"P", " ", "\n">> >>
      [] path = "b.ini"  -> << <<"x", "p", "\n">> >>
      [] path = "c.yaml" -> << <<"x", "!", "K1", "\n">>, <<"p", "\n">> >>
      [] path = "d.yaml" -> << <<"#", "K2", "\n">> >>
      [] path = "e.py"   -> << <<"x", "\n">>, <<"!", "\n">>, <<"P", "\n">> >>
      [] path = "pipe.yaml" -> << <<"x", "K2", "\n">> >>
      [] OTHER           -> <<>>

Extension(path) ==
    CASE path \in {"a.py", "e.py", "locked.py", "missing.py"} -> "py"
      [] path = "b.ini" -> "ini"
      [] path \in {"c.yaml", "d.yaml", "pipe.yaml"} -> "yaml"
      [] OTHER -> ""

-----------------------------------------------------------------------------
(* Events recorded while a scan runs: each call the orchestrator makes to a *)
(* detector, filter or transformer, each file operation and each yield.     *)

Event(ev, who, filename, line, num, aux) ==
    [ev |-> ev, who |-> who, filename |-> filename, line |-> line,
     num |-> num, aux |-> aux, res |-> FALSE]

-----------------------------------------------------------------------------
(* Transformers *)

\* get_transformers(): the registered transformers, in registration order.
Transformers == <<"YAMLTransformer", "ConfigFileTransformer", "EagerConfigFileTransformer">>

is_eager(t) == t = "EagerConfigFileTransformer"

should_parse_file(t, filename) ==
    IF t = "YAMLTransformer" THEN Extension(filename) = "yaml" ELSE TRUE

IsComment(raw) == raw # <<>> /\ Head(raw) = "#"

RECURSIVE DropComments(_)
DropComments(raws) ==
    IF raws = <<>> THEN <<>>
    ELSE IF IsComment(Head(raws)) THEN DropComments(Tail(raws))
         ELSE <<Head(raws)>> \o DropComments(Tail(raws))

\* The eager config transformer quotes bare values, which turns a bare
\* password "p" into the form "P" the keyword detector recognises.
Quote(raw) == [i \in 1..Len(raw) |-> IF raw[i] = "p" THEN "P" ELSE raw[i]]

\* transformer.parse_file(file) over what is left of the stream: the lines
\* it produces, or a ParsingError.
parse_file(t, rest) ==
    LET body == DropComments(rest)
    IN  IF t = "YAMLTransformer"
        THEN IF \E i \in 1..Len(rest) : Contains(rest[i], "!")
             THEN [ok |-> FALSE, lines |-> <<>>]
             ELSE [ok |-> TRUE, lines |-> [i \in 1..Len(body) |-> rstrip(body[i])]]
        ELSE IF \E i \in 1..Len(body) : Head(body[i]) \notin {"x", "p"}
             THEN [ok |-> FALSE, lines |-> <<>>]
             ELSE [ok |-> TRUE,
                   lines |-> [i \in 1..Len(body) |->
                                IF is_eager(t) THEN Quote(rstrip(body[i]))
                                ELSE rstrip(body[i])]]

\* f.readlines() / parse: everything from the read position to the end.
RestOf(path, pos) == SubSeq(Content(path), pos + 1, Len(Content(path)))

\* Mutation: the eagerness of a transformer is not compared with the pass.
Eligible_AnyEagerness(t, path, use_eager) == should_parse_file(t, path)

\* A transformer is tried when it claims the file and its eagerness is the
\* one asked for; the others are skipped (`continue`).
Eligible(t, path, use_eager) ==
    should_parse_file(t, path) /\ use_eager = is_eager(t)

\* Mutation: the `finally: file.seek(0)` is lost; parse_file has read the
\* stream to its end.
PositionAfterAttempt_Unrestored(path) == Len(Content(path))

\* `finally: file.seek(0)` after every parse attempt
PositionAfterAttempt(path) == 0

\* _get_transformed_file(file, use_eager_transformers), from transformer i on.
\* Result: some = FALSE is None; pos is the read position afterwards; events
\* are the parse attempts made.
RECURSIVE TransformFrom(_, _, _, _)
TransformFrom(i, path, pos, use_eager) ==
    IF i > Len(Transformers)
    THEN [some |-> FALSE, lines |-> <<>>, pos |-> pos, events |-> <<>>]
    ELSE LET t == Transformers[i]
         IN  IF ~Eligible(t, path, use_eager)
             THEN TransformFrom(i + 1, path, pos, use_eager)
             ELSE LET r  == parse_file(t, RestOf(path, pos))
                      ev == Event("parse", t, path, <<>>, pos,
                                  IF use_eager THEN "eager" ELSE "lazy")
                  IN  IF r.ok
                      THEN [some |-> TRUE, lines |-> r.lines,
                            pos |-> PositionAfterAttempt(path), events |-> <<ev>>]
                      ELSE LET n == TransformFrom(i + 1, path, PositionAfterAttempt(path),
                                                  use_eager)
                           IN  [n EXCEPT !.events = <<ev>> \o n.events]

_get_transformed_file(path, pos, use_eager) == TransformFrom(1, path, pos, use_eager)

-----------------------------------------------------------------------------
(* Filters *)

FILTER_INVALID_FILE == "detect_secrets.filters.common.is_invalid_file"
FILTER_ALLOWLIST    == "detect_secrets.filters.allowlist.is_line_allowlisted"
FILTER_SEQUENTIAL   == "detect_secrets.filters.heuristic.is_sequential_string"
FILTER_LIKELY_ID    == "detect_secrets.filters.heuristic.is_likely_id_string"
FILTER_FIXTURE      == "detect_secrets.filters.custom.is_fixture_secret"
FILTER_UNRESOLVABLE == "detect_secrets.filters.missing.not_a_filter"

\* import_module / getattr succeed for the path
Resolvable(path) == path # FILTER_UNRESOLVABLE

\* get_injectable_variables(function): the parameter names of the filter.
injectable_variables(f) ==
    CASE f = FILTER_INVALID_FILE -> {"filename"}
      [] f = FILTER_ALLOWLIST    -> {"filename", "line"}
      [] f = FILTER_SEQUENTIAL   -> {"secret"}
      [] f = FILTER_LIKELY_ID    -> {"secret", "line"}
      [] f = FILTER_FIXTURE      -> {"filename", "secret"}
      [] OTHER                   -> {}

\* The filter function itself, applied to the values injected into it.
FilterFn(f, kw) ==
    CASE f = FILTER_INVALID_FILE -> ~IsFile(kw.filename)
      [] f = FILTER_ALLOWLIST    -> Contains(kw.line, "#")
      [] f = FILTER_SEQUENTIAL   -> kw.secret = "K1"
      [] f = FILTER_LIKELY_ID    -> kw.secret = "P" /\ Contains(kw.line, "x")
      [] f = FILTER_FIXTURE      -> kw.filename = "e.py" /\ kw.secret = "P"
      [] OTHER                   -> FALSE

\* inject_variables_into_function calls the filter only when every parameter
\* it declares is among the offered names; otherwise it returns None.
Invoked(f, offered) == injectable_variables(f) \subseteq offered

inject_variables_into_function(f, kw) ==
    IF Invoked(f, DOMAIN kw) THEN FilterFn(f, kw) ELSE FALSE

\* get_filters(), computed from the settings' filters (a dict, in insertion
\* order): unresolvable paths are dropped.
RECURSIVE ResolveFilters(_)
ResolveFilters(paths) ==
    IF paths = <<>> THEN <<>>
    ELSE IF Resolvable(Head(paths))
         THEN <<Head(paths)>> \o ResolveFilters(Tail(paths))
         ELSE ResolveFilters(Tail(paths))

\* Mutation: the inclusion is turned round (filters that need no more than
\* the requested parameters).
RECURSIVE FiltersWithParameter_Subset(_, _)
FiltersWithParameter_Subset(filters, minimum_parameters) ==
    IF filters = <<>> THEN <<>>
    ELSE IF injectable_variables(Head(filters)) \subseteq minimum_parameters
         THEN <<Head(filters)>>
              \o FiltersWithParameter_Subset(Tail(filters), minimum_parameters)
         ELSE FiltersWithParameter_Subset(Tail(filters), minimum_parameters)

\* Mutation: the selected filters come out in reverse registry order.
RECURSIVE FiltersWithParameter_Reversed(_, _)
FiltersWithParameter_Reversed(filters, minimum_parameters) ==
    IF filters = <<>> THEN <<>>
    ELSE IF minimum_parameters \subseteq injectable_variables(Head(filters))
         THEN FiltersWithParameter_Reversed(Tail(filters), minimum_parameters)
              \o <<Head(filters)>>
         ELSE FiltersWithParameter_Reversed(Tail(filters), minimum_parameters)

\* [f for f in filters if minimum_parameters <= f.injectable_variables]
RECURSIVE FiltersWithParameter(_, _)
FiltersWithParameter(filters, minimum_parameters) ==
    IF filters = <<>> THEN <<>>
    ELSE IF minimum_parameters \subseteq injectable_variables(Head(filters))
         THEN <<Head(filters)>> \o FiltersWithParameter(Tail(filters), minimum_parameters)
         ELSE FiltersWithParameter(Tail(filters), minimum_parameters)

\* Settings.disable_filters(*paths): remove the paths from the filters dict.
RECURSIVE disable_filters(_, _)
disable_filters(paths, off) ==
    IF paths = <<>> THEN <<>>
    ELSE IF Head(paths) \in off THEN disable_filters(Tail(paths), off)
         ELSE <<Head(paths)>> \o disable_filters(Tail(paths), off)

\* Mutation: only the first filter is consulted.
EvalUntilTrue_FirstOnly(filters, kw, ev) ==
    IF filters = <<>> THEN [hit |-> FALSE, events |-> <<>>]
    ELSE LET f == Head(filters)
         IN  [hit |-> inject_variables_into_function(f, kw),
              events |-> IF Invoked(f, DOMAIN kw)
                         THEN <<[ev EXCEPT !.who = f, !.res = FilterFn(f, kw)]>>
                         ELSE <<>>]

\* Evaluate the filters in order with the offered values and stop at the
\* first one that returns true (a for loop with return / break).
RECURSIVE EvalUntilTrue(_, _, _)
EvalUntilTrue(filters, kw, ev) ==
    IF filters = <<>> THEN [hit |-> FALSE, events |-> <<>>]
    ELSE LET f    == Head(filters)
             here == IF Invoked(f, DOMAIN kw)
                     THEN <<[ev EXCEPT !.who = f, !.res = FilterFn(f, kw)]>>
                     ELSE <<>>
         IN  IF inject_variables_into_function(f, kw)
             THEN [hit |-> TRUE, events |-> here]
             ELSE LET n == EvalUntilTrue(Tail(filters), kw, ev)
                  IN  [n EXCEPT !.events = here \o n.events]

\* Mutation: all() in place of any().
RECURSIVE EvalAll_Conjunction(_, _, _)
EvalAll_Conjunction(filters, kw, ev) ==
    IF filters = <<>> THEN [hit |-> TRUE, events |-> <<>>]
    ELSE LET f    == Head(filters)
             here == IF Invoked(f, DOMAIN kw)
                     THEN <<[ev EXCEPT !.who = f, !.res = FilterFn(f, kw)]>>
                     ELSE <<>>
             n    == EvalAll_Conjunction(Tail(filters), kw, ev)
         IN  [hit |-> inject_variables_into_function(f, kw) /\ n.hit,
              events |-> here \o n.events]

\* Evaluate every filter with the offered values (a list comprehension under
\* any()); hit when at least one returned true.
RECURSIVE EvalAll(_, _, _)
EvalAll(filters, kw, ev) ==
    IF filters = <<>> THEN [hit |-> FALSE, events |-> <<>>]
    ELSE LET f    == Head(filters)
             here == IF Invoked(f, DOMAIN kw)
                     THEN <<[ev EXCEPT !.who = f, !.res = FilterFn(f, kw)]>>
                     ELSE <<>>
             n    == EvalAll(Tail(filters), kw, ev)
         IN  [hit |-> inject_variables_into_function(f, kw) \/ n.hit,
              events |-> here \o n.events]

-----------------------------------------------------------------------------
(* Inputs the caller may pass *)

AdhocLines == { <<"P">>, <<"K1", "K2", " ">>, <<"x", "P", "#">>, <<"!", "K2">> }

DiffLine(line_type, target_line_no, value) ==
    [line_type |-> line_type, target_line_no |-> target_line_no, value |-> value]

\* A parsed unified diff: per file its path and hunks; a hunk is its lines,
\* "+" added, "-" removed (no target line number), " " context.
Diff1 ==
    << [path |-> "missing.py",
        hunks |-> << << DiffLine("+", 1, <<"K2", "\n">>) >> >>],
       [path |-> "a.py",
        hunks |-> << << DiffLine("-", 0, <<"K2", "\n">>),
                        DiffLine("+", 42, <<"K1", "P", "\n">>),
                        DiffLine(" ", 43, <<"P", "\n">>) >>,
                     << DiffLine("+", 50, <<"P", "#", "\n">>),
                        DiffLine("+", 51, <<"K2", " ", "\n">>) >> >>] >>

Diff2 ==
    << [path |-> "e.py",
        hunks |-> << << DiffLine("+", 7, <<"x", "P", "\n">>),
                        DiffLine("-", 0, <<"P", "\n">>),
                        DiffLine("+", 8, <<"!", "\n">>),
                        DiffLine("+", 9, <<"K2", "\n">>) >> >>],
       [path |-> "missing.py",
        hunks |-> << << DiffLine("+", 3, <<"P", "\n">>) >> >>],
       [path |-> "b.ini",
        hunks |-> << << DiffLine(" ", 1, <<"x", "\n">>),
                        DiffLine("+", 2, <<"P", " ", "\n">>) >> >>] >>

Diffs == {"diff1", "diff2", "malformed"}

\* PatchSet.from_string(diff)
WellFormed(diff) == diff # "malformed"
PatchSet(diff) == IF diff = "diff1" THEN Diff1 ELSE IF diff = "diff2" THEN Diff2 ELSE <<>>

RECURSIVE Flatten(_)
Flatten(hunks) == IF hunks = <<>> THEN <<>> ELSE Head(hunks) \o Flatten(Tail(hunks))

\* Mutation: every line of chunk.target_lines() is kept, the context lines
\* included.
AddedOnly_TargetLines(ls) ==
    LET kept == SelectSeq(ls, LAMBDA l : l.line_type # "-")
    IN  [k \in 1..Len(kept) |->
            [line_number |-> kept[k].target_line_no, text |-> kept[k].value]]

RECURSIVE AddedOnly(_)
AddedOnly(ls) ==
    IF ls = <<>> THEN <<>>
    ELSE IF Head(ls).line_type = "+"
         THEN <<[line_number |-> Head(ls).target_line_no, text |-> Head(ls).value]>>
              \o AddedOnly(Tail(ls))
         ELSE AddedOnly(Tail(ls))

\* The (target_line_no, value) pairs of the added lines of a patch.
AddedLines(patch_file) == AddedOnly(Flatten(patch_file.hunks))

FilterConfigs ==
    { <<>>,
      <<FILTER_INVALID_FILE, FILTER_ALLOWLIST, FILTER_SEQUENTIAL, FILTER_LIKELY_ID,
        FILTER_FIXTURE>>,
      <<FILTER_LIKELY_ID, FILTER_UNRESOLVABLE, FILTER_SEQUENTIAL>>,
      <<FILTER_INVALID_FILE, FILTER_FIXTURE>>,
      <<FILTER_ALLOWLIST>> }

PluginConfigs ==
    { <<>>,
      <<"AWSKeyDetector", "KeywordDetector">>,
      <<"BasicAuthDetector", "KeywordDetector", "FaultyDetector", "AWSKeyDetector">> }

ParameterNames == {"filename", "line", "secret", "plugin"}

-----------------------------------------------------------------------------
(* State *)

VARIABLES
    settings_filters,  \* get_settings().filters: the enabled filter paths, in dict order
    settings_plugins,  \* get_settings().plugins: the enabled detector classnames
    configured,        \* the filter paths the caller configured before any scan
    filters_cache,     \* lru_cache of get_filters
    plugins_cache,     \* lru_cache of get_plugins
    calls,             \* number of calls the caller has made
    mode,              \* the generator in progress: "none", "scan_line", "scan_file", "scan_diff"
    arg,               \* its argument
    pc,                \* where the generator stands
    status,            \* "running", then "exhausted", "raised" or "closed"
    fr,                \* the generator's local variables
    fh,                \* the file handle of scan_file
    out,               \* the findings yielded to the consumer so far
    log,               \* the events of the scan in progress
    last               \* the previous completed call: kind, argument, result

vars == <<settings_filters, settings_plugins, configured, filters_cache, plugins_cache,
          calls, mode, arg, pc, status, fr, fh, out, log, last>>

EmptyCache == [valid |-> FALSE, value |-> <<>>]

EmptyFrame ==
    [filename |-> "", lines |-> <<>>, li |-> 0, line |-> <<>>, line_number |-> 0,
     pi |-> 0, secrets |-> <<>>, si |-> 0, has_secret |-> FALSE, pass |-> "none",
     patches |-> <<>>, pidx |-> 0]

ClosedHandle == [open |-> FALSE, name |-> "", pos |-> 0]

Init ==
    /\ settings_filters \in FilterConfigs
    /\ settings_plugins \in PluginConfigs
    /\ configured = settings_filters
    /\ filters_cache = EmptyCache
    /\ plugins_cache = EmptyCache
    /\ calls = 0
    /\ mode = "none"
    /\ arg = ""
    /\ pc = "idle"
    /\ status = "none"
    /\ fr = EmptyFrame
    /\ fh = ClosedHandle
    /\ out = <<>>
    /\ log = <<>>
    /\ last = [kind |-> "none", arg |-> "", out |-> <<>>, status |-> "none"]

-----------------------------------------------------------------------------
(* Registry / cache *)

\* get_plugins(): memoized list of the configured detectors.
get_plugins == IF plugins_cache.valid THEN plugins_cache.value ELSE settings_plugins

\* Mutation: the memo holds a one-shot iterator instead of a list; the call
\* that filled it consumed it, and every later call finds it empty.
get_filters_ConsumedMemo ==
    IF filters_cache.valid THEN <<>> ELSE ResolveFilters(settings_filters)

\* get_filters(): memoized list of the resolvable configured filters.
get_filters ==
    IF filters_cache.valid THEN filters_cache.value ELSE ResolveFilters(settings_filters)

get_filters_with_parameter(parameters) == FiltersWithParameter(get_filters, parameters)

\* Mutation: the verdicts of the file-level filters are ignored.
_filter_files_Never(filename) == [hit |-> FALSE, events |-> <<>>]

\* _filter_files(filename)
_filter_files(filename) ==
    EvalUntilTrue(get_filters, [filename |-> filename],
                  Event("filter_file", "", filename, <<>>, 0, ""))

Memoized(value) == [valid |-> TRUE, value |-> value]

\* Mutation: the file is opened without a with block, and no exit closes it.
Finish_LeavesOpen(how) ==
    /\ pc' = "done"
    /\ status' = how
    /\ fh' = fh

\* The generator ends: exhausted, by an exception, or closed by the consumer.
\* The with block of scan_file releases the handle on every exit.
Finish(how) ==
    /\ pc' = "done"
    /\ status' = how
    /\ fh' = [fh EXCEPT !.open = FALSE]

-----------------------------------------------------------------------------
(* The caller *)

Start(kind, a) ==
    /\ pc = "idle"
    /\ calls < MaxScans
    /\ calls' = calls + 1
    /\ mode' = kind
    /\ arg' = a
    /\ pc' = "created"
    /\ status' = "running"
    /\ fr' = EmptyFrame
    /\ out' = <<>>
    /\ log' = <<>>
    /\ UNCHANGED <<settings_filters, settings_plugins, configured, filters_cache,
                   plugins_cache, fh, last>>

CallScanLine == \E l \in AdhocLines : Start("scan_line", l)

CallScanFile == \E p \in Paths : Start("scan_file", p)

CallScanDiff == \E d \in Diffs : Start("scan_diff", d)

\* A direct call of get_filters_with_parameter(*parameters).
CallGetFiltersWithParameter ==
    \E ps \in SUBSET ParameterNames :
        /\ pc = "idle"
        /\ calls < MaxScans
        /\ calls' = calls + 1
        /\ filters_cache' = Memoized(get_filters)
        /\ last' = [kind |-> "get_filters_with_parameter", arg |-> ps,
                    out |-> get_filters_with_parameter(ps), status |-> "returned"]
        /\ UNCHANGED <<settings_filters, settings_plugins, configured, plugins_cache,
                       mode, arg, pc, status, fr, fh, out, log>>

\* The consumer pulls the next finding after a yield.
Resume ==
    /\ pc = "yielded"
    /\ pc' = "secret"
    /\ fr' = [fr EXCEPT !.si = @ + 1]
    /\ UNCHANGED <<settings_filters, settings_plugins, configured, filters_cache,
                   plugins_cache, calls, mode, arg, status, fh, out, log, last>>

\* The consumer stops early: it closes (or discards) the suspended generator.
Close ==
    /\ pc \in {"created", "yielded"}
    /\ Finish("closed")
    /\ UNCHANGED <<settings_filters, settings_plugins, configured, filters_cache,
                   plugins_cache, calls, mode, arg, fr, out, log, last>>

\* The consumer has seen the end of the sequence (or the exception).
Return ==
    /\ pc = "done"
    /\ last' = [kind |-> mode, arg |-> arg, out |-> out, status |-> status]
    /\ pc' = "idle"
    /\ mode' = "none"
    /\ arg' = ""
    /\ status' = "none"
    /\ fr' = EmptyFrame
    /\ fh' = ClosedHandle
    /\ out' = <<>>
    /\ log' = <<>>
    /\ UNCHANGED <<settings_filters, settings_plugins, configured, filters_cache,
                   plugins_cache, calls>>

-----------------------------------------------------------------------------
(* scan_line *)

\* Mutation: the ad hoc line is numbered like the first line of a file.
AdhocFrame_LineOne ==
    [EmptyFrame EXCEPT !.filename = ADHOC_FILENAME, !.line = arg, !.line_number = 1,
                       !.pi = 1]

\* The arguments scan_line passes to _scan_line for every plugin.
AdhocFrame ==
    [EmptyFrame EXCEPT !.filename = ADHOC_FILENAME, !.line = arg, !.line_number = 0,
                       !.pi = 1]

\* Mutation: scan_line hands its line to _process_line_based_plugins, as
\* scan_file and scan_diff do, instead of calling _scan_line itself.
ScanLineBegin_ViaPipeline ==
    /\ pc = "created" /\ mode = "scan_line"
    /\ settings_filters' = disable_filters(settings_filters, {FILTER_INVALID_FILE})
    /\ plugins_cache' = Memoized(get_plugins)
    /\ fr' = [EmptyFrame EXCEPT !.filename = ADHOC_FILENAME,
                                !.lines = <<[line_number |-> 0, text |-> arg]>>,
                                !.li = 1]
    /\ pc' = "line"
    /\ UNCHANGED <<settings_plugins, configured, filters_cache, calls, mode, arg,
                   status, fh, out, log, last>>

\* First pull of scan_line: disable the invalid-file filter in the settings
\* and start the loop over get_plugins().  Nothing here touches the memo of
\* get_filters.
ScanLineBegin ==
    /\ pc = "created" /\ mode = "scan_line"
    /\ settings_filters' = disable_filters(settings_filters, {FILTER_INVALID_FILE})
    /\ plugins_cache' = Memoized(get_plugins)
    /\ fr' = AdhocFrame
    /\ pc' = "plugin"
    /\ UNCHANGED <<settings_plugins, configured, filters_cache, calls, mode, arg,
                   status, fh, out, log, last>>

-----------------------------------------------------------------------------
(* scan_file *)

\* Mutation: the IOError of open() is not caught.
OpenFailed_Propagates == Finish("raised")

\* `except IOError`: a warning, and the generator ends without findings.
OpenFailed == Finish("exhausted")

\* First pull of scan_file: the plugin check, the file-level filters, open().
ScanFileBegin ==
    /\ pc = "created" /\ mode = "scan_file"
    /\ plugins_cache' = Memoized(get_plugins)
    /\ IF get_plugins = <<>>
       THEN /\ log' = Append(log, Event("warning", "No plugins to scan with!", arg, <<>>, 0, ""))
            /\ Finish("exhausted")
            /\ UNCHANGED <<filters_cache, fr>>
       ELSE LET ff == _filter_files(arg)
            IN  /\ filters_cache' = Memoized(get_filters)
                /\ IF ff.hit
                   THEN /\ log' = log \o ff.events
                        /\ Finish("exhausted")
                        /\ UNCHANGED fr
                   ELSE IF ~Openable(arg)
                   THEN /\ log' = log \o ff.events
                                  \o <<Event("warning", "Unable to open file", arg, <<>>, 0, "")>>
                        /\ OpenFailed
                        /\ UNCHANGED fr
                   ELSE /\ log' = log \o ff.events \o <<Event("open", "", arg, <<>>, 0, "")>>
                        /\ fh' = [open |-> TRUE, name |-> arg, pos |-> 0]
                        /\ fr' = [fr EXCEPT !.filename = arg]
                        /\ pc' = "first_pass"
                        /\ UNCHANGED status
    /\ UNCHANGED <<settings_filters, settings_plugins, configured, calls, mode, arg,
                   out, last>>

\* The first pass: the lazy transformers, else the raw lines.
FirstPass ==
    /\ pc = "first_pass"
    /\ LET t     == _get_transformed_file(fh.name, fh.pos, FALSE)
           raw   == ~t.some \/ t.lines = <<>>
           lines == IF raw THEN RestOf(fh.name, t.pos) ELSE t.lines
       IN  /\ log' = log \o t.events
                     \o (IF raw THEN <<Event("readlines", "", fh.name, <<>>, t.pos, "")>>
                         ELSE <<>>)
           /\ fh' = [fh EXCEPT !.pos = IF raw THEN Len(Content(fh.name)) ELSE t.pos]
           /\ fr' = [fr EXCEPT !.lines = enumerate1(lines), !.li = 1, !.pass = "first",
                               !.has_secret = FALSE]
    /\ pc' = "line"
    /\ UNCHANGED <<settings_filters, settings_plugins, configured, filters_cache,
                   plugins_cache, calls, mode, arg, status, out, last>>

\* Mutation: the early return after the first pass is lost.
StopAfterFirstPass_Never == FALSE

\* `if has_secret: return`
StopAfterFirstPass == fr.has_secret

\* The first pass is over: stop if it yielded a secret, else seek(0) and
\* try the eager transformers.
AfterFirstPass ==
    /\ pc = "line" /\ mode = "scan_file" /\ fr.pass = "first"
    /\ fr.li > Len(fr.lines)
    /\ IF StopAfterFirstPass
       THEN /\ Finish("exhausted")
            /\ UNCHANGED <<fr, log>>
       ELSE LET t == _get_transformed_file(fh.name, 0, TRUE)
            IN  /\ log' = Append(log, Event("seek", "", fh.name, <<>>, 0, "")) \o t.events
                /\ IF ~t.some \/ t.lines = <<>>
                   THEN /\ pc' = "done"
                        /\ status' = "exhausted"
                        /\ fh' = [fh EXCEPT !.open = FALSE, !.pos = t.pos]
                        /\ UNCHANGED fr
                   ELSE /\ fh' = [fh EXCEPT !.pos = t.pos]
                        /\ fr' = [fr EXCEPT !.lines = enumerate1(t.lines), !.li = 1,
                                            !.pass = "eager"]
                        /\ pc' = "line"
                        /\ UNCHANGED status
    /\ UNCHANGED <<settings_filters, settings_plugins, configured, filters_cache,
                   plugins_cache, calls, mode, arg, out, last>>

\* The eager pass is over.
AfterEagerPass ==
    /\ pc = "line" /\ mode = "scan_file" /\ fr.pass = "eager"
    /\ fr.li > Len(fr.lines)
    /\ Finish("exhausted")
    /\ UNCHANGED <<settings_filters, settings_plugins, configured, filters_cache,
                   plugins_cache, calls, mode, arg, fr, out, log, last>>

-----------------------------------------------------------------------------
(* scan_diff *)

\* First pull of scan_diff: the plugin check and the parse of the diff.
ScanDiffBegin ==
    /\ pc = "created" /\ mode = "scan_diff"
    /\ plugins_cache' = Memoized(get_plugins)
    /\ IF get_plugins = <<>>
       THEN /\ log' = Append(log, Event("warning", "No plugins to scan with!", "", <<>>, 0, ""))
            /\ Finish("exhausted")
            /\ UNCHANGED fr
       ELSE IF ~WellFormed(arg)
       THEN /\ Finish("raised")
            /\ UNCHANGED <<fr, log>>
       ELSE /\ fr' = [fr EXCEPT !.patches = PatchSet(arg), !.pidx = 1]
            /\ pc' = "patch"
            /\ UNCHANGED <<status, fh, log>>
    /\ UNCHANGED <<settings_filters, settings_plugins, configured, filters_cache,
                   calls, mode, arg, out, last>>

\* Mutation: a rejected patch ends the scan, as a rejected file ends scan_file.
AfterRejectedPatch_Return == Len(fr.patches) + 1

\* `continue`: after a rejected patch the loop goes on with the next one.
AfterRejectedPatch == fr.pidx + 1

\* The next patch of the diff: the file-level filters, then its added lines.
NextPatch ==
    /\ pc = "patch"
    /\ IF fr.pidx > Len(fr.patches)
       THEN /\ Finish("exhausted")
            /\ UNCHANGED <<fr, log, filters_cache>>
       ELSE LET patch_file == fr.patches[fr.pidx]
                ff         == _filter_files(patch_file.path)
            IN  /\ filters_cache' = Memoized(get_filters)
                /\ log' = log \o ff.events
                /\ IF ff.hit
                   THEN fr' = [fr EXCEPT !.pidx = AfterRejectedPatch]
                   ELSE fr' = [fr EXCEPT !.filename = patch_file.path,
                                         !.lines = AddedLines(patch_file), !.li = 1,
                                         !.pass = "diff"]
                /\ pc' = IF ff.hit THEN "patch" ELSE "line"
                /\ UNCHANGED <<status, fh>>
    /\ UNCHANGED <<settings_filters, settings_plugins, configured, plugins_cache,
                   calls, mode, arg, out, last>>

\* The added lines of a patch are done.
AfterPatch ==
    /\ pc = "line" /\ mode = "scan_diff"
    /\ fr.li > Len(fr.lines)
    /\ fr' = [fr EXCEPT !.pidx = @ + 1]
    /\ pc' = "patch"
    /\ UNCHANGED <<settings_filters, settings_plugins, configured, filters_cache,
                   plugins_cache, calls, mode, arg, status, fh, out, log, last>>

-----------------------------------------------------------------------------
(* _process_line_based_plugins and _scan_line *)

\* The next line of the pipeline: rstrip, then every filter that takes
\* `line`; a line some filter rejects is skipped.
NextLine ==
    /\ pc = "line"
    /\ fr.li <= Len(fr.lines)
    /\ LET line_number == fr.lines[fr.li].line_number
           line        == rstrip(fr.lines[fr.li].text)
           r == EvalAll(get_filters_with_parameter({"line"}),
                        [filename |-> fr.filename, line |-> line],
                        Event("filter_line", "", fr.filename, line, line_number, ""))
       IN  /\ filters_cache' = Memoized(get_filters)
           /\ log' = log \o r.events
           /\ IF r.hit
              THEN /\ fr' = [fr EXCEPT !.li = @ + 1]
                   /\ pc' = "line"
              ELSE /\ fr' = [fr EXCEPT !.line = line, !.line_number = line_number,
                                       !.pi = 1]
                   /\ pc' = "plugin"
    /\ UNCHANGED <<settings_filters, settings_plugins, configured, plugins_cache,
                   calls, mode, arg, status, fh, out, last>>

\* Mutation: _scan_line calls analyze_line outside any try block.
Caught_Nothing(kind) == FALSE

\* `except AttributeError: return` around plugin.analyze_line
Caught(kind) == kind = "AttributeError"

\* The next detector for the current line: plugin.analyze_line.
NextPlugin ==
    /\ pc = "plugin"
    /\ IF fr.pi > Len(get_plugins)
       THEN /\ IF mode = "scan_line"
               THEN /\ Finish("exhausted")
                    /\ UNCHANGED fr
               ELSE /\ fr' = [fr EXCEPT !.li = @ + 1]
                    /\ pc' = "line"
                    /\ UNCHANGED <<status, fh>>
            /\ UNCHANGED log
       ELSE LET plugin == get_plugins[fr.pi]
                r == analyze_line(plugin, fr.filename, fr.line, fr.line_number)
            IN  /\ log' = Append(log, Event("analyze", plugin, fr.filename, fr.line,
                                            fr.line_number,
                                            IF r.secrets # <<>> THEN "found" ELSE r.kind))
                /\ IF r.kind # "ok" /\ ~Caught(r.kind)
                   THEN /\ Finish("raised")
                        /\ UNCHANGED fr
                   ELSE IF Caught(r.kind) \/ r.secrets = <<>>
                   THEN /\ fr' = [fr EXCEPT !.pi = @ + 1]
                        /\ UNCHANGED <<pc, status, fh>>
                   ELSE /\ fr' = [fr EXCEPT !.secrets = r.secrets, !.si = 1]
                        /\ pc' = "secret"
                        /\ UNCHANGED <<status, fh>>
    /\ UNCHANGED <<settings_filters, settings_plugins, configured, filters_cache,
                   plugins_cache, calls, mode, arg, out, last>>

\* Mutation: has_secret is set for every raw finding, suppressed or not.
HasSecret_BeforeFiltering(yielded) == fr.has_secret \/ fr.pass = "first"

\* scan_file sets has_secret for every finding the first pass hands it.
HasSecret(yielded) == fr.has_secret \/ (yielded /\ fr.pass = "first")

\* The next raw finding of the current detector: the filters that take
\* `secret`, in order, until one rejects it; a finding none rejects is yielded.
NextSecret ==
    /\ pc = "secret"
    /\ IF fr.si > Len(fr.secrets)
       THEN /\ fr' = [fr EXCEPT !.pi = @ + 1, !.secrets = <<>>, !.si = 0]
            /\ pc' = "plugin"
            /\ UNCHANGED <<filters_cache, out, log>>
       ELSE LET secret == fr.secrets[fr.si]
                plugin == get_plugins[fr.pi]
                r == EvalUntilTrue(get_filters_with_parameter({"secret"}),
                                   [filename |-> secret.filename,
                                    secret |-> secret.secret_value,
                                    plugin |-> plugin, line |-> fr.line],
                                   Event("filter_secret", "", secret.filename, fr.line,
                                         secret.line_number, secret.secret_value))
            IN  /\ filters_cache' = Memoized(get_filters)
                /\ IF r.hit
                   THEN /\ log' = log \o r.events
                                  \o <<Event("debug", plugin, secret.filename, fr.line,
                                             secret.line_number, secret.secret_value)>>
                        /\ fr' = [fr EXCEPT !.si = @ + 1, !.has_secret = HasSecret(FALSE)]
                        /\ UNCHANGED <<pc, out>>
                   ELSE /\ log' = log \o r.events
                                  \o <<Event("yield", plugin, secret.filename, fr.line,
                                             secret.line_number, secret.secret_value)>>
                        /\ out' = Append(out, secret)
                        /\ fr' = [fr EXCEPT !.has_secret = HasSecret(TRUE)]
                        /\ pc' = "yielded"
    /\ UNCHANGED <<settings_filters, settings_plugins, configured, plugins_cache,
                   calls, mode, arg, status, fh, last>>

-----------------------------------------------------------------------------

Next ==
    \/ CallScanLine
    \/ CallScanFile
    \/ CallScanDiff
    \/ CallGetFiltersWithParameter
    \/ Resume
    \/ Close
    \/ Return
    \/ ScanLineBegin
    \/ ScanFileBegin
    \/ FirstPass
    \/ AfterFirstPass
    \/ AfterEagerPass
    \/ ScanDiffBegin
    \/ NextPatch
    \/ AfterPatch
    \/ NextLine
    \/ NextPlugin
    \/ NextSecret

Spec == Init /\ [][Next]_vars

-----------------------------------------------------------------------------
(* Properties *)

Range(s) == {s[i] : i \in 1..Len(s)}

LogIdx == 1..Len(log)

IsEagerParse(e) == e.ev = "parse" /\ e.aux = "eager"

\* The event at index i happened during the first pass of scan_file: the
\* seek(0) that opens the eager pass has not happened before it.
InFirstPass(i) == \A k \in 1..i : log[k].ev # "seek"

\* C1: in scan_file, once the first pass has yielded a finding to the caller,
\* the eager pass is never attempted: no seek(0), no eager parse follows the
\* yield, and whenever the pipeline runs a second (eager) time every finding
\* yielded so far was yielded by that second run.
C1_NoEagerPassAfterFinding ==
    mode = "scan_file" =>
        /\ \A i \in LogIdx : \A j \in LogIdx :
              (i < j /\ log[i].ev = "yield" /\ InFirstPass(i))
                  => (log[j].ev # "seek" /\ ~IsEagerParse(log[j]))
        /\ fr.pass = "eager" => \A i \in LogIdx : log[i].ev = "yield" => ~InFirstPass(i)

\* A file an eager transformer would parse ends after a first pass that
\* yielded a finding, with no eager attempt.
C1_Witness ==
    /\ mode = "scan_file" /\ arg = "c.yaml" /\ pc = "done" /\ status = "exhausted"
    /\ Len(out) >= 1
    /\ _get_transformed_file("c.yaml", 0, TRUE).some
    /\ \A i \in LogIdx : log[i].ev # "seek" /\ ~IsEagerParse(log[i])

\* C2 as stated: once a detector has returned a raw finding during the first
\* pass, the eager pass is not attempted, even if the finding is suppressed.
C2_GateBeforeFiltering ==
    mode = "scan_file" =>
        \A i \in LogIdx : \A j \in LogIdx :
            (i < j /\ log[i].ev = "analyze" /\ log[i].aux = "found" /\ InFirstPass(i))
                => (log[j].ev # "seek" /\ ~IsEagerParse(log[j]))

\* C2 amended: the gate is "a finding survived filtering and was yielded":
\* a scan_file that opened its file and ran to exhaustion attempted the eager
\* pass exactly when its first pass yielded nothing, whether or not raw
\* findings were suppressed in it.
C2_GateAfterFiltering ==
    (mode = "scan_file" /\ pc = "done" /\ status = "exhausted"
       /\ \E i \in LogIdx : log[i].ev = "open")
    => ((\E j \in LogIdx : log[j].ev = "seek")
          <=> ~(\E i \in LogIdx : log[i].ev = "yield" /\ InFirstPass(i)))

\* A first pass whose only raw finding was suppressed is followed by the
\* eager pass.
C2_Witness ==
    /\ mode = "scan_file" /\ pc = "done" /\ status = "exhausted"
    /\ \E i \in LogIdx : \E j \in LogIdx :
          /\ i < j
          /\ log[i].ev = "debug" /\ InFirstPass(i)
          /\ IsEagerParse(log[j])


\* Some registered filter that takes `line` and can be called with
\* (filename, line) alone returns true for the line.
LineLevelTrue(filename, line) ==
    \E f \in Range(get_filters) :
        /\ "line" \in injectable_variables(f)
        /\ Invoked(f, {"filename", "line"})
        /\ FilterFn(f, [filename |-> filename, line |-> line])

SameLine(e1, e2) ==
    e1.filename = e2.filename /\ e1.num = e2.num /\ e1.line = e2.line

\* C3: in the line pipeline, a line for which some line-level filter returned
\* true gets no analyze_line call and no finding, and the pipeline goes on
\* with the next line: an exhausted scan_diff has, for every added line of
\* every patch it did not skip, either a line-level filter that returned true
\* or a call of every detector.
C3_FilteredLineSkipped ==
    mode \in {"scan_file", "scan_diff"} =>
        /\ \A i \in LogIdx : \A j \in LogIdx :
              (log[i].ev = "filter_line" /\ log[i].res /\ SameLine(log[i], log[j]))
                  => log[j].ev \notin {"analyze", "yield", "debug", "filter_secret"}
        /\ \A j \in LogIdx :
              log[j].ev \in {"analyze", "yield"}
                  => ~LineLevelTrue(log[j].filename, log[j].line)
        /\ (mode = "scan_diff" /\ pc = "done" /\ status = "exhausted"
              /\ get_plugins # <<>>)
           => \A n \in 1..Len(PatchSet(arg)) :
                 LET patch_file == PatchSet(arg)[n]
                     added      == AddedLines(patch_file)
                 IN  ~_filter_files(patch_file.path).hit
                     => \A k \in 1..Len(added) :
                           LET line == rstrip(added[k].text)
                           IN  \/ \E i \in LogIdx :
                                     /\ log[i].ev = "filter_line" /\ log[i].res
                                     /\ log[i].filename = patch_file.path
                                     /\ log[i].num = added[k].line_number
                               \/ \A p \in Range(get_plugins) :
                                     \E i \in LogIdx :
                                         /\ log[i].ev = "analyze" /\ log[i].who = p
                                         /\ log[i].filename = patch_file.path
                                         /\ log[i].num = added[k].line_number
                                         /\ log[i].line = line

\* A line of a diff was skipped by a line-level filter and a detector was
\* called on a later line.
C3_Witness ==
    /\ mode = "scan_diff" /\ pc = "done" /\ status = "exhausted"
    /\ \E i \in LogIdx : \E j \in LogIdx :
          /\ i < j
          /\ log[i].ev = "filter_line" /\ log[i].res /\ log[i].num = 50
          /\ log[j].ev = "analyze" /\ log[j].num = 51 /\ log[j].filename = log[i].filename

\* Some registered filter that takes `secret` returns true for the finding
\* the event is about (its filename, secret value, detector and line).
SecretLevelTrue(e) ==
    \E f \in Range(get_filters) :
        /\ "secret" \in injectable_variables(f)
        /\ Invoked(f, {"filename", "secret", "plugin", "line"})
        /\ FilterFn(f, [filename |-> e.filename, secret |-> e.aux,
                        plugin |-> e.who, line |-> e.line])

IsDecision(e) == e.ev \in {"yield", "debug"}

\* The raw findings of the analyze_line calls of the log, in call order.
RECURSIVE RawFindings(_)
RawFindings(events) ==
    IF events = <<>> THEN <<>>
    ELSE LET e == Head(events)
         IN  (IF e.ev = "analyze"
              THEN analyze_line(e.who, e.filename, e.line, e.num).secrets
              ELSE <<>>) \o RawFindings(Tail(events))

FindingOf(e) == PotentialSecret(e.who, e.filename, e.aux, e.num)

\* C4: the raw findings are decided one by one in the order the detectors
\* returned them; a raw finding is yielded exactly when no secret-level
\* filter returns true for it, and suppressed otherwise; the output is
\* exactly the yielded findings; a scan that runs to exhaustion has decided
\* every raw finding, so a suppressed one does not stop the rest of its line.
C4_YieldedIffNotFiltered ==
    LET decisions == SelectSeq(log, IsDecision)
        raw       == RawFindings(log)
        yields    == SelectSeq(decisions, LAMBDA e : e.ev = "yield")
    IN  /\ Len(decisions) <= Len(raw)
        /\ \A k \in 1..Len(decisions) :
              /\ FindingOf(decisions[k]) = raw[k]
              /\ (decisions[k].ev = "yield") <=> ~SecretLevelTrue(decisions[k])
        /\ out = [k \in 1..Len(yields) |-> FindingOf(yields[k])]
        /\ (pc = "done" /\ status = "exhausted") => Len(decisions) = Len(raw)

\* One detector call returned two findings; the first was suppressed and the
\* second was yielded.
C4_Witness ==
    /\ pc = "done" /\ status = "exhausted"
    /\ \E i \in LogIdx :
          /\ i + 2 <= Len(log)
          /\ log[i].ev = "debug" /\ log[i].aux = "K1"
          /\ \E j \in (i + 1)..Len(log) :
                /\ log[j].ev = "yield" /\ log[j].aux = "K2"
                /\ SameLine(log[i], log[j])


IsResolverCall == last.kind = "get_filters_with_parameter"

\* C5 as stated: the resolver returns exactly the registered filters whose
\* declared parameters are a subset of the requested ones, so a filter
\* declaring {filename} is selected when {filename, line} is requested.
C5_SubsetOfRequested ==
    IsResolverCall =>
        /\ Range(last.out) =
              {f \in Range(get_filters) : injectable_variables(f) \subseteq last.arg}
        /\ (last.arg = {"filename", "line"} /\ FILTER_INVALID_FILE \in Range(get_filters))
              => FILTER_INVALID_FILE \in Range(last.out)

\* C5 amended: the resolver returns exactly the registered filters whose
\* declared parameters contain every requested one; requesting
\* {filename, line} selects neither a filter declaring {filename} nor one
\* declaring {secret}.
C5_SupersetOfRequested ==
    IsResolverCall =>
        /\ Range(last.out) =
              {f \in Range(get_filters) : last.arg \subseteq injectable_variables(f)}
        /\ last.arg = {"filename", "line"}
              => /\ FILTER_INVALID_FILE \notin Range(last.out)
                 /\ FILTER_SEQUENTIAL \notin Range(last.out)

\* {filename, line} was requested from a registry holding a {filename} filter
\* and a {secret} filter; only the (filename, line) filter came back.
C5_Witness ==
    /\ IsResolverCall
    /\ last.arg = {"filename", "line"}
    /\ {FILTER_INVALID_FILE, FILTER_SEQUENTIAL} \subseteq Range(get_filters)
    /\ last.out = <<FILTER_ALLOWLIST>>

\* C6: get_filters_with_parameter returns, in registry order, the registered
\* filters whose injectable variables contain the requested parameters; with
\* foo(filename) and bar(filename, secret) registered, requesting 'secret'
\* returns [bar].
C6_SelectedInRegistryOrder ==
    IsResolverCall =>
        /\ last.out = SelectSeq(get_filters,
                                LAMBDA f : last.arg \subseteq injectable_variables(f))
        /\ (get_filters = <<FILTER_INVALID_FILE, FILTER_FIXTURE>> /\ last.arg = {"secret"})
              => last.out = <<FILTER_FIXTURE>>

\* The docstring's example: foo(filename) and bar(filename, secret) are
\* registered and 'secret' is requested.
C6_Witness ==
    /\ IsResolverCall
    /\ get_filters = <<FILTER_INVALID_FILE, FILTER_FIXTURE>>
    /\ last.arg = {"secret"}
    /\ last.out = <<FILTER_FIXTURE>>

\* C7 as stated: once scan_line has disabled the invalid-file filter in the
\* settings, get_filters() no longer returns it, memoized or not.
C7_DisabledFilterLeavesRegistry ==
    (FILTER_INVALID_FILE \in Range(configured)
       /\ FILTER_INVALID_FILE \notin Range(settings_filters))
    => FILTER_INVALID_FILE \notin Range(get_filters)

\* C8 as stated: after a fully consumed scan_line the enabled filters are
\* what they were before the call.
C8_SettingsRestoredAfterScanLine ==
    (pc = "idle" /\ calls = 1 /\ last.kind = "scan_line" /\ last.status = "exhausted")
    => settings_filters = configured

\* The findings scan_line is to produce for the plugins, in order: each
\* detector's raw findings for (adhoc-string-scan, line, 0) that no
\* secret-level filter rejects.
RECURSIVE AdhocFindings(_, _)
AdhocFindings(plugins, line) ==
    IF plugins = <<>> THEN <<>>
    ELSE LET p   == Head(plugins)
             raw == analyze_line(p, ADHOC_FILENAME, line, 0).secrets
             keep(s) == ~SecretLevelTrue(Event("", p, s.filename, line, 0, s.secret_value))
         IN  SelectSeq(raw, keep) \o AdhocFindings(Tail(plugins), line)

\* C9: scan_line calls the active detectors once each, in registry order,
\* with filename 'adhoc-string-scan', the line as given and line number 0;
\* it runs no transformer, opens no file and evaluates no file-level or
\* line-level filter (the invalid-file filter is never called); run to
\* exhaustion it has called every detector and yielded exactly the findings
\* no secret-level filter rejects.
C9_ScanLine ==
    mode = "scan_line" =>
        LET analyses == SelectSeq(log, LAMBDA e : e.ev = "analyze")
        IN  /\ \A i \in LogIdx :
                  /\ log[i].ev \in {"analyze", "filter_secret", "debug", "yield"}
                  /\ log[i].who # FILTER_INVALID_FILE
                  /\ log[i].ev = "filter_secret" => "secret" \in injectable_variables(log[i].who)
            /\ ~fh.open
            /\ Len(analyses) <= Len(get_plugins)
            /\ \A k \in 1..Len(analyses) :
                  /\ analyses[k].who = get_plugins[k]
                  /\ analyses[k].filename = ADHOC_FILENAME
                  /\ analyses[k].line = arg
                  /\ analyses[k].num = 0
            /\ (pc = "done" /\ status = "exhausted")
                  => /\ Len(analyses) = Len(get_plugins)
                     /\ out = AdhocFindings(get_plugins, arg)

\* scan_line ran four detectors to exhaustion, yielded a finding, and the
\* invalid-file filter, still in the memoized registry, was not called.
C9_Witness ==
    /\ mode = "scan_line" /\ pc = "done" /\ status = "exhausted"
    /\ Len(get_plugins) = 4
    /\ Len(out) >= 1
    /\ FILTER_INVALID_FILE \in Range(get_filters)
    /\ \E i \in LogIdx : log[i].ev = "filter_secret"

UnopenableScan == mode = "scan_file" /\ ~Openable(arg)

\* C10: scan_file on a path open() fails for yields nothing and raises
\* nothing: no transformer runs, no lines are read, no detector is called,
\* no handle stays open; and the scan_file that follows one opens and reads
\* its own file.
C10_UnopenableFileYieldsNothing ==
    /\ UnopenableScan =>
          /\ out = <<>>
          /\ status # "raised"
          /\ ~fh.open
          /\ \A i \in LogIdx : log[i].ev \in {"warning", "filter_file"}
    /\ (last.kind = "scan_file" /\ ~Openable(last.arg)) =>
          /\ last.out = <<>>
          /\ last.status # "raised"
          /\ (mode = "scan_file" /\ Openable(arg) /\ pc = "done" /\ status = "exhausted"
                /\ get_plugins # <<>> /\ ~_filter_files(arg).hit)
             => /\ \E i \in LogIdx : log[i].ev = "open" /\ log[i].filename = arg
                /\ \E i \in LogIdx : log[i].ev \in {"parse", "readlines"}

\* open() failed for locked.py; the scan of a.py that followed found secrets.
C10_Witness ==
    /\ last.kind = "scan_file" /\ last.arg = "locked.py" /\ last.status = "exhausted"
    /\ mode = "scan_file" /\ arg = "a.py" /\ pc = "done" /\ status = "exhausted"
    /\ Len(out) >= 1


\* Some registered filter that can be called with the filename alone returns
\* true for it.
FileLevelTrue(filename) ==
    \E f \in Range(get_filters) :
        /\ Invoked(f, {"filename"})
        /\ FilterFn(f, [filename |-> filename])

\* C11: scan_file on a path for which some file-level filter returns true
\* yields nothing and never opens the file: there is no open() attempt, no
\* transformer, no line-level filter, no detector and no secret-level filter
\* call, only calls of file-level filters, the last of which returned true.
C11_FilteredFileNeverOpened ==
    (mode = "scan_file" /\ get_plugins # <<>> /\ FileLevelTrue(arg)) =>
        /\ out = <<>>
        /\ ~fh.open
        /\ status # "raised"
        /\ pc \in {"created", "done"}
        /\ \A i \in LogIdx : log[i].ev = "filter_file" /\ log[i].filename = arg
        /\ status = "exhausted" => /\ log # <<>>
                                   /\ log[Len(log)].res
                                   /\ \A i \in 1..(Len(log) - 1) : ~log[i].res

\* pipe.yaml, which open() would accept and which holds a secret, is rejected
\* by is_invalid_file.
C11_Witness ==
    /\ mode = "scan_file" /\ arg = "pipe.yaml" /\ pc = "done" /\ status = "exhausted"
    /\ Openable(arg) /\ get_plugins # <<>>
    /\ \E i \in LogIdx : log[i].ev = "filter_file" /\ log[i].who = FILTER_INVALID_FILE
                         /\ log[i].res
    /\ out = <<>>


\* The lines of a patch the diff marks as added, in diff order.
MarkedAdded(patch_file) ==
    SelectSeq(Flatten(patch_file.hunks), LAMBDA l : l.line_type = "+")

\* The event is about an added line of some patch of the diff: its path, its
\* target line number and its text (right-stripped).
AboutAddedLine(e) ==
    \E n \in 1..Len(PatchSet(arg)) :
        /\ e.filename = PatchSet(arg)[n].path
        /\ \E l \in Range(MarkedAdded(PatchSet(arg)[n])) :
              /\ e.num = l.target_line_no
              /\ e.line = rstrip(l.value)

\* C12: scan_diff hands the line pipeline exactly the added lines of a
\* patch, each with its line number in the target file and the patch's path:
\* every line-level filter call, detector call and finding is about an added
\* line, none about a removed or context line.
C12_OnlyAddedLinesScanned ==
    mode = "scan_diff" =>
        /\ \A i \in LogIdx :
              log[i].ev \in {"filter_line", "analyze", "filter_secret", "debug", "yield"}
                 => AboutAddedLine(log[i])
        /\ \A k \in 1..Len(out) :
              \E i \in LogIdx : /\ log[i].ev = "yield"
                                /\ out[k].filename = log[i].filename
                                /\ out[k].line_number = log[i].num
        /\ pc \in {"line", "plugin", "secret", "yielded"} =>
              LET added == MarkedAdded(fr.patches[fr.pidx])
              IN  /\ fr.filename = fr.patches[fr.pidx].path
                  /\ Len(fr.lines) = Len(added)
                  /\ \A k \in 1..Len(added) :
                        /\ fr.lines[k].line_number = added[k].target_line_no
                        /\ fr.lines[k].text = added[k].value

\* diff1 on a.py: the line added at 42 is analysed as line 42 and its finding
\* carries 42; the removed line and the context line at 43 are not analysed.
C12_Witness ==
    /\ mode = "scan_diff" /\ arg = "diff1" /\ pc = "done" /\ status = "exhausted"
    /\ \E i \in LogIdx : /\ log[i].ev = "analyze" /\ log[i].filename = "a.py"
                         /\ log[i].num = 42 /\ log[i].line = <<"K1", "P">>
    /\ \E k \in 1..Len(out) : out[k].line_number = 42 /\ out[k].filename = "a.py"
    /\ \A i \in LogIdx : log[i].ev = "analyze" => log[i].num \notin {0, 43}


\* The call in progress is scan_file on the path the previous call, a
\* scan_file that ran to exhaustion, scanned.
RepeatedScanFile ==
    /\ last.kind = "scan_file" /\ last.status = "exhausted"
    /\ mode = "scan_file" /\ arg = last.arg

\* C13: scan_file is idempotent: with the configuration and the file
\* unchanged, a second scan of the same path yields the findings of the first
\* in the same order, whatever the first scan left in the memoized registries
\* and however far it read the file.
C13_ScanFileIdempotent ==
    RepeatedScanFile =>
        /\ Len(out) <= Len(last.out)
        /\ out = SubSeq(last.out, 1, Len(out))
        /\ (pc = "done" /\ status = "exhausted") => out = last.out
        /\ status # "raised"

\* Two exhausted scans of the same file, the first of which filled the memos
\* and read the raw lines to the end, both with findings.
C13_Witness ==
    /\ RepeatedScanFile
    /\ pc = "done" /\ status = "exhausted"
    /\ out # <<>>
    /\ \E i \in LogIdx : log[i].ev = "readlines"
    /\ filters_cache.valid /\ plugins_cache.valid


RaisedAttributeError(i) ==
    log[i].ev = "analyze" /\ log[i].aux = "AttributeError"

\* C15: an AttributeError out of analyze_line counts as no findings for that
\* detector on that line and goes no further: the scan is not ended by it,
\* the detector contributes no finding for the line, every detector after it
\* in the list is still called for the line, and the lines after it are still
\* processed.
C15_AttributeErrorIsNoFindings ==
    \A i \in LogIdx : RaisedAttributeError(i) =>
        /\ ~(status = "raised" /\ i = Len(log))
        /\ \A j \in LogIdx :
              (log[j].ev \in {"yield", "debug"} /\ SameLine(log[i], log[j]))
                 => log[j].who # log[i].who
        /\ (pc = "done" /\ status = "exhausted") =>
              /\ \A k, m \in 1..Len(get_plugins) :
                    (get_plugins[k] = log[i].who /\ m > k) =>
                       \E j \in LogIdx : /\ j > i
                                         /\ log[j].ev = "analyze"
                                         /\ log[j].who = get_plugins[m]
                                         /\ SameLine(log[i], log[j])
              /\ \A k, m \in 1..Len(fr.lines) :
                    (/\ fr.filename = log[i].filename
                     /\ fr.lines[k].line_number = log[i].num
                     /\ m > k) =>
                       \E j \in LogIdx : /\ j > i
                                         /\ log[j].ev \in {"filter_line", "analyze"}
                                         /\ log[j].num = fr.lines[m].line_number

\* a.py with BasicAuthDetector first in the list: it raises AttributeError on
\* line 1, a later detector's finding for line 1 is yielded, and the lines
\* after it are analysed too.
C15_Witness ==
    /\ mode = "scan_file" /\ arg = "a.py" /\ pc = "done" /\ status = "exhausted"
    /\ \E i, j \in LogIdx : /\ RaisedAttributeError(i) /\ log[i].num = 1
                            /\ j > i
                            /\ log[j].ev = "yield" /\ log[j].num = 1
    /\ \E i \in LogIdx : RaisedAttributeError(i) /\ log[i].num = 3


\* The transformers of one eagerness that claim the file, as indexes into
\* the registration order.
Candidates(path, use_eager) ==
    {i \in 1..Len(Transformers) :
        should_parse_file(Transformers[i], path) /\ is_eager(Transformers[i]) = use_eager}

\* The transformer parses the whole file without a ParsingError.
Parses(i, path) == parse_file(Transformers[i], Content(path)).ok

\* The candidates that must be invoked: those no successful candidate precedes.
Attempted(path, use_eager) ==
    {i \in Candidates(path, use_eager) :
        \A j \in Candidates(path, use_eager) : j < i => ~Parses(j, path)}

\* The first candidate that parses the file, if any.
Winner(path, use_eager) ==
    {i \in Attempted(path, use_eager) : Parses(i, path)}

PhaseOf(use_eager) == IF use_eager THEN "eager" ELSE "lazy"

\* The parse attempts of one pass, as logged: the transformers, in order.
ParseAttempts(use_eager) ==
    LET evs == SelectSeq(log, LAMBDA e : e.ev = "parse" /\ e.aux = PhaseOf(use_eager))
    IN  [k \in 1..Len(evs) |-> evs[k].who]

\* The sequence of the transformers with the given indexes, in index order.
RECURSIVE InOrder(_, _)
InOrder(idx, from) ==
    IF from > Len(Transformers) THEN <<>>
    ELSE (IF from \in idx THEN <<Transformers[from]>> ELSE <<>>) \o InOrder(idx, from + 1)

LazyDone == (\E i \in LogIdx : log[i].ev = "open") /\ pc # "first_pass"
EagerDone == \E i \in LogIdx : log[i].ev = "seek"

\* C16: of the transformers that claim the file and have the eagerness of
\* the pass, _get_transformed_file invokes, in registration order, exactly
\* those up to the first whose parse_file does not raise ParsingError, and
\* returns that one's output; it invokes no other transformer, none after the
\* successful one, and returns None exactly when none succeeded.
C16_FirstSuccessfulTransformer ==
    mode = "scan_file" =>
        /\ LazyDone =>
              /\ ParseAttempts(FALSE) = InOrder(Attempted(arg, FALSE), 1)
              /\ \A w \in Winner(arg, FALSE) :
                    LET lines == parse_file(Transformers[w], Content(arg)).lines
                    IN  (lines # <<>> /\ ~EagerDone /\ pc # "done") =>
                            /\ fr.lines = enumerate1(lines)
                            /\ \A i \in LogIdx : log[i].ev # "readlines"
              /\ Winner(arg, FALSE) = {} =>
                    /\ \E i \in LogIdx : log[i].ev = "readlines"
                    /\ (~EagerDone /\ pc # "done") => fr.lines = enumerate1(Content(arg))
        /\ ~LazyDone => ParseAttempts(FALSE) = <<>>
        /\ EagerDone =>
              /\ ParseAttempts(TRUE) = InOrder(Attempted(arg, TRUE), 1)
              /\ \A w \in Winner(arg, TRUE) :
                    LET lines == parse_file(Transformers[w], Content(arg)).lines
                    IN  (lines # <<>> /\ pc # "done") =>
                            fr.pass = "eager" /\ fr.lines = enumerate1(lines)
              /\ Winner(arg, TRUE) = {} => fr.pass # "eager"
        /\ ~EagerDone => ParseAttempts(TRUE) = <<>>

\* c.yaml: the YAML transformer raises ParsingError, the lazy config
\* transformer after it succeeds and its lines are scanned; the eager one was
\* not invoked in the first pass, and later parses the file in the eager pass.
C16_Witness ==
    /\ mode = "scan_file" /\ arg = "c.yaml" /\ fr.pass = "eager" /\ pc = "line"
    /\ ParseAttempts(FALSE) = <<"YAMLTransformer", "ConfigFileTransformer">>
    /\ ParseAttempts(TRUE) = <<"EagerConfigFileTransformer">>
    /\ fr.lines = enumerate1(<< <<"x", "!", "K1">>, <<"P">> >>)


\* C17: every parse attempt restores the read position to the start of the
\* file: each parse attempt of the first pass and of the eager pass and the
\* raw-line read of the first pass begin at offset 0, and after a pass's
\* transformers have run the position is 0 unless the raw lines were read.
C17_ReadsBeginAtStart ==
    /\ \A i \in LogIdx : log[i].ev \in {"parse", "readlines"} => log[i].num = 0
    /\ \A i \in LogIdx : log[i].ev = "seek" => log[i].num = 0
    /\ (fh.open /\ log[Len(log)].ev = "parse") => fh.pos = 0
    /\ \A i \in LogIdx :
          IsEagerParse(log[i]) => \E j \in 1..(i - 1) : log[j].ev = "seek"

\* e.py: the lazy config transformer fails, the raw lines are read from
\* offset 0 to the end, and the eager pass parses from offset 0 again.
C17_Witness ==
    /\ mode = "scan_file" /\ arg = "e.py"
    /\ \E i, j, k \in LogIdx :
          /\ i < j /\ j < k
          /\ log[i].ev = "parse" /\ log[i].aux = "lazy" /\ log[i].num = 0
          /\ log[j].ev = "readlines" /\ log[j].num = 0
          /\ IsEagerParse(log[k]) /\ log[k].num = 0


\* The first-pass pipeline of scan_file is running.
FirstPassRunning ==
    /\ mode = "scan_file" /\ fr.pass = "first"
    /\ pc \in {"line", "plugin", "secret", "yielded"}

\* C18: in the first pass of scan_file the raw lines are read and scanned if
\* and only if no lazy transformer that claims the file parses it; when one
\* parses it, exactly its output lines are scanned, also when it produced no
\* lines at all.
C18_RawLinesOnlyWithoutTransform ==
    (mode = "scan_file" /\ LazyDone) =>
        /\ (\E i \in LogIdx : log[i].ev = "readlines") <=> Winner(arg, FALSE) = {}
        /\ FirstPassRunning =>
              /\ Winner(arg, FALSE) = {} => fr.lines = enumerate1(Content(arg))
              /\ \A w \in Winner(arg, FALSE) :
                    fr.lines = enumerate1(parse_file(Transformers[w], Content(arg)).lines)


IsLineEvent(e) == e.ev \in {"filter_line", "analyze", "filter_secret", "debug", "yield"}

\* The position in the diff of the patch for the file.
PatchIndex(filename) ==
    CHOOSE n \in 1..Len(PatchSet(arg)) : PatchSet(arg)[n].path = filename

\* C19: scan_diff applies the file-level filters patch by patch: a patch
\* whose path a file-level filter rejects gets no line-level filter call, no
\* detector call and no finding; every other patch of the diff, before or
\* after it, has each of its added lines processed; and calls and findings
\* come in patch order.
C19_RejectedPatchSkippedOnly ==
    (mode = "scan_diff" /\ WellFormed(arg) /\ get_plugins # <<>>) =>
        /\ \A i \in LogIdx : IsLineEvent(log[i]) => ~FileLevelTrue(log[i].filename)
        /\ \A k \in 1..Len(out) : ~FileLevelTrue(out[k].filename)
        /\ \A i, j \in LogIdx :
              (i < j /\ IsLineEvent(log[i]) /\ IsLineEvent(log[j]))
                 => PatchIndex(log[i].filename) <= PatchIndex(log[j].filename)
        /\ \A k, m \in 1..Len(out) :
              k < m => PatchIndex(out[k].filename) <= PatchIndex(out[m].filename)
        /\ (pc = "done" /\ status = "exhausted") =>
              \A n \in 1..Len(PatchSet(arg)) :
                 LET patch_file == PatchSet(arg)[n]
                 IN  IF FileLevelTrue(patch_file.path)
                     THEN \E i \in LogIdx : /\ log[i].ev = "filter_file" /\ log[i].res
                                            /\ log[i].filename = patch_file.path
                     ELSE \A l \in Range(MarkedAdded(patch_file)) :
                             \E i \in LogIdx : /\ log[i].ev \in {"filter_line", "analyze"}
                                               /\ log[i].filename = patch_file.path
                                               /\ log[i].num = l.target_line_no

\* diff2: the patch of missing.py, between those of e.py and b.ini, is
\* rejected; the findings of e.py and then of b.ini are yielded.
C19_Witness ==
    /\ mode = "scan_diff" /\ arg = "diff2" /\ pc = "done" /\ status = "exhausted"
    /\ \E i \in LogIdx : /\ log[i].ev = "filter_file" /\ log[i].res
                         /\ log[i].filename = "missing.py"
    /\ \E k, m \in 1..Len(out) :
          k < m /\ out[k].filename = "e.py" /\ out[m].filename = "b.ini"


\* C20: scan_line has no line-level filter stage: it evaluates no filter
\* before it calls the detectors, so every detector is called on the line
\* even when a registered line-level filter returns true for it; the only
\* filter calls are those on a raw finding, and a raw finding that is not
\* yielded was rejected by one of them.
C20_ScanLineSkipsLineFilters ==
    mode = "scan_line" =>
        /\ pc # "line"
        /\ \A i \in LogIdx : log[i].ev \notin {"filter_line", "filter_file"}
        /\ \A j \in LogIdx :
              log[j].ev = "filter_secret" =>
                 \E i \in 1..(j - 1) : log[i].ev = "analyze" /\ log[i].aux = "found"
        /\ (pc = "done" /\ status = "exhausted") =>
              \A p \in Range(get_plugins) :
                 /\ \E i \in LogIdx : /\ log[i].ev = "analyze" /\ log[i].who = p
                                      /\ log[i].line = arg /\ log[i].num = 0
                 /\ LET found == analyze_line(p, ADHOC_FILENAME, arg, 0).secrets
                    IN  \A k \in 1..Len(found) :
                           \/ found[k] \in Range(out)
                           \/ \E i \in LogIdx : /\ log[i].ev = "filter_secret"
                                                /\ log[i].res
                                                /\ log[i].aux = found[k].secret_value

\* The line "x P #", which is_line_allowlisted rejects in a file, is analysed
\* by scan_line and its finding is yielded.
C20_Witness ==
    /\ mode = "scan_line" /\ arg = <<"x", "P", "#">>
    /\ pc = "done" /\ status = "exhausted"
    /\ FILTER_ALLOWLIST \in Range(get_filters)
    /\ LineLevelTrue(ADHOC_FILENAME, arg)
    /\ \E i \in LogIdx : log[i].ev = "analyze" /\ log[i].aux = "found"
    /\ out # <<>>

====
